---- MODULE Spec2Model ----
(***************************************************************************)
(* A model of the OpenCog-style AtomSpace, truth-value algebra, PLN rules  *)
(* and Unified Rule Engine of src/src/ggml-opencog.cpp.                    *)
(*                                                                         *)
(* Representation.                                                         *)
(*  - An atom pointer is the 1-based position of the atom in as.atoms      *)
(*    (as->atoms[k-1] in the source); NULL is the null pointer.  The loop  *)
(*    counters i, j, iter, rule_idx keep the 0-based values of the source. *)
(*  - A float is a fixed-point number with One units per 1.0f; a product   *)
(*    is rounded to the nearest unit, as a float product is rounded to the *)
(*    nearest representable value.                                         *)
(*  - The embedding tensor, filled from rand() by the constructor, is the  *)
(*    field as.embed.                                                      *)
(*  - ggml_opencog_ure_forward_chain is a call frame fc that is advanced   *)
(*    from one rule application to the next.                               *)
(***************************************************************************)
EXTENDS Integers, Sequences, FiniteSets, TLC

VARIABLES as, ure, fc, ret, client

vars == <<as, ure, fc, ret, client>>

(***************************************************************************)
(* Bounds of the model.                                                    *)
(***************************************************************************)
MaxCap == 4
MaxIter == 2
MaxDirect == 4
MaxOps == 2
MaxStore == 3
MaxChain == 8
MaxCalls == 2

(***************************************************************************)
(* Program constants.                                                      *)
(***************************************************************************)
OPENCOG_ATOM_CONCEPT_NODE == 0
OPENCOG_ATOM_PREDICATE_NODE == 1
OPENCOG_ATOM_LINK_NODE == 2
OPENCOG_ATOM_INHERITANCE_LINK == 3
OPENCOG_ATOM_SIMILARITY_LINK == 4
OPENCOG_ATOM_IMPLICATION_LINK == 5
OPENCOG_ATOM_EVALUATION_LINK == 6

NULL == 0
NoName == "<nullptr>"

One == 100
Decay == 90
QueryThreshold == 50

(***************************************************************************)
(* Float arithmetic.                                                       *)
(***************************************************************************)
fminf(a, b) == IF a < b THEN a ELSE b
fmaxf(a, b) == IF a > b THEN a ELSE b
fmul(a, b) == (a * b + One \div 2) \div One

(***************************************************************************)
(* Truth Value operations                                                  *)
(***************************************************************************)
ggml_opencog_tv_create_unclamped(strength, confidence, count) ==
    [strength |-> strength, confidence |-> confidence, count |-> count]

ggml_opencog_tv_create(strength, confidence, count) ==
    [strength |-> fmaxf(0, fminf(One, strength)),
     confidence |-> fmaxf(0, fminf(One, confidence)),
     count |-> fmaxf(0, count)]

ggml_opencog_tv_and(tv1, tv2) ==
    ggml_opencog_tv_create(fmul(tv1.strength, tv2.strength),
                           fmul(tv1.confidence, tv2.confidence),
                           tv1.count + tv2.count)

ggml_opencog_tv_or_max(tv1, tv2) ==
    ggml_opencog_tv_create(
        fmaxf(tv1.strength, tv2.strength),
        fminf(tv1.confidence, tv2.confidence),
        fmaxf(tv1.count, tv2.count))

ggml_opencog_tv_or(tv1, tv2) ==
    ggml_opencog_tv_create(
        tv1.strength + tv2.strength - fmul(tv1.strength, tv2.strength),
        fminf(tv1.confidence, tv2.confidence),
        fmaxf(tv1.count, tv2.count))

ggml_opencog_tv_not(tv) ==
    ggml_opencog_tv_create(One - tv.strength, tv.confidence, tv.count)

default_tv == [strength |-> 80, confidence |-> 90, count |-> 1]

(***************************************************************************)
(* AtomSpace implementation.  Every operation returns the new AtomSpace    *)
(* and the value the C function returns.                                   *)
(***************************************************************************)
n_atoms(s) == Len(s.atoms)

ggml_opencog_atomspace_init(capacity, embed) ==
    [atoms |-> <<>>, capacity |-> capacity, embed |-> embed]

ggml_opencog_atom_create_past_capacity(s, type, name, tv) ==
    IF n_atoms(s) > s.capacity
    THEN [as |-> s, ret |-> NULL]
    ELSE [as |-> [s EXCEPT !.atoms = Append(@,
                     [type |-> type, name |-> name, tv |-> tv,
                      outgoing |-> <<>>])],
          ret |-> n_atoms(s) + 1]

ggml_opencog_atom_create(s, type, name, tv) ==
    IF n_atoms(s) >= s.capacity
    THEN [as |-> s, ret |-> NULL]
    ELSE [as |-> [s EXCEPT !.atoms = Append(@,
                     [type |-> type, name |-> name, tv |-> tv,
                      outgoing |-> <<>>])],
          ret |-> n_atoms(s) + 1]

ggml_opencog_link_create_no_copy(s, type, outgoing, tv) ==
    IF n_atoms(s) >= s.capacity
    THEN [as |-> s, ret |-> NULL]
    ELSE [as |-> [s EXCEPT !.atoms = Append(@,
                     [type |-> type, name |-> NoName, tv |-> tv,
                      outgoing |-> [p \in 1..Len(outgoing) |-> NULL]])],
          ret |-> n_atoms(s) + 1]

ggml_opencog_link_create_at_front(s, type, outgoing, tv) ==
    IF n_atoms(s) >= s.capacity
    THEN [as |-> s, ret |-> NULL]
    ELSE [as |-> [s EXCEPT !.atoms =
                     <<[type |-> type, name |-> NoName, tv |-> tv,
                        outgoing |-> outgoing]>> \o @],
          ret |-> 1]

ggml_opencog_link_create_past_capacity(s, type, outgoing, tv) ==
    IF n_atoms(s) > s.capacity
    THEN [as |-> s, ret |-> NULL]
    ELSE [as |-> [s EXCEPT !.atoms = Append(@,
                     [type |-> type, name |-> NoName, tv |-> tv,
                      outgoing |-> outgoing])],
          ret |-> n_atoms(s) + 1]

ggml_opencog_link_create(s, type, outgoing, tv) ==
    IF n_atoms(s) >= s.capacity
    THEN [as |-> s, ret |-> NULL]
    ELSE [as |-> [s EXCEPT !.atoms = Append(@,
                     [type |-> type, name |-> NoName, tv |-> tv,
                      outgoing |-> outgoing])],
          ret |-> n_atoms(s) + 1]

ggml_opencog_atom_get_last(s, name) ==
    LET hits == {k \in 1..n_atoms(s) : s.atoms[k].name # NoName
                                        /\ s.atoms[k].name = name}
    IN  IF hits = {} THEN NULL
        ELSE CHOOSE k \in hits : \A h \in hits : k >= h

\* The first atom in creation order whose name is name, or NULL.
ggml_opencog_atom_get(s, name) ==
    LET hits == {k \in 1..n_atoms(s) : s.atoms[k].name # NoName
                                        /\ s.atoms[k].name = name}
    IN  IF hits = {} THEN NULL
        ELSE CHOOSE k \in hits : \A h \in hits : k <= h

ggml_opencog_atom_add_link(s, from, to, link_type, tv) ==
    LET r == ggml_opencog_link_create(s, link_type, <<from, to>>, tv)
    IN  [as |-> r.as, ret |-> r.ret # NULL]

(***************************************************************************)
(* Pattern matching: the atoms of the pattern's type whose confidence is   *)
(* at least 0.5, in creation order, and their number; nullptr when none.   *)
(***************************************************************************)
ggml_opencog_query_above(s, pattern) ==
    LET results == SelectSeq([k \in 1..n_atoms(s) |-> k],
                       LAMBDA k : /\ s.atoms[k].type = pattern.type
                                  /\ s.atoms[k].tv.confidence > QueryThreshold)
    IN  [n_results |-> Len(results),
         ret |-> IF Len(results) = 0 THEN NULL ELSE results]

ggml_opencog_query(s, pattern) ==
    LET results == SelectSeq([k \in 1..n_atoms(s) |-> k],
                       LAMBDA k : /\ s.atoms[k].type = pattern.type
                                  /\ s.atoms[k].tv.confidence >= QueryThreshold)
    IN  [n_results |-> Len(results),
         ret |-> IF Len(results) = 0 THEN NULL ELSE results]

(***************************************************************************)
(* PLN Inference Rules                                                     *)
(***************************************************************************)
ggml_opencog_rule_modus_ponens_precondition(s, premises) ==
    IF Len(premises) # 2 THEN FALSE
    ELSE LET p == premises[1]
             implication == s.atoms[premises[2]]
         IN  IF implication.type # OPENCOG_ATOM_IMPLICATION_LINK THEN FALSE
             ELSE IF Len(implication.outgoing) # 2 THEN FALSE
             ELSE implication.outgoing[1] = p

ggml_opencog_rule_modus_ponens_conclusion_into_implication(s, premises) ==
    IF ~ggml_opencog_rule_modus_ponens_precondition(s, premises)
    THEN [as |-> s, ret |-> NULL]
    ELSE LET p == s.atoms[premises[1]]
             implication == s.atoms[premises[2]]
             q == implication.outgoing[2]
             tv_p == p.tv
             tv_imp == implication.tv
             strength == fmul(tv_p.strength, tv_imp.strength)
             confidence == fmul(tv_p.confidence, tv_imp.confidence)
             count == fminf(tv_p.count, tv_imp.count)
             new_tv == ggml_opencog_tv_create(strength, confidence, count)
         IN  [as |-> [s EXCEPT !.atoms[premises[2]].tv =
                                   ggml_opencog_tv_or(@, new_tv)],
              ret |-> q]

ggml_opencog_rule_modus_ponens_conclusion_into_p(s, premises) ==
    IF ~ggml_opencog_rule_modus_ponens_precondition(s, premises)
    THEN [as |-> s, ret |-> NULL]
    ELSE LET p == s.atoms[premises[1]]
             implication == s.atoms[premises[2]]
             q == implication.outgoing[1]
             tv_p == p.tv
             tv_imp == implication.tv
             strength == fmul(tv_p.strength, tv_imp.strength)
             confidence == fmul(tv_p.confidence, tv_imp.confidence)
             count == fminf(tv_p.count, tv_imp.count)
             new_tv == ggml_opencog_tv_create(strength, confidence, count)
         IN  [as |-> [s EXCEPT !.atoms[q].tv = ggml_opencog_tv_or(@, new_tv)],
              ret |-> q]

ggml_opencog_rule_modus_ponens_conclusion(s, premises) ==
    IF ~ggml_opencog_rule_modus_ponens_precondition(s, premises)
    THEN [as |-> s, ret |-> NULL]
    ELSE LET p == s.atoms[premises[1]]
             implication == s.atoms[premises[2]]
             q == implication.outgoing[2]
             tv_p == p.tv
             tv_imp == implication.tv
             strength == fmul(tv_p.strength, tv_imp.strength)
             confidence == fmul(tv_p.confidence, tv_imp.confidence)
             count == fminf(tv_p.count, tv_imp.count)
             new_tv == ggml_opencog_tv_create(strength, confidence, count)
         IN  [as |-> [s EXCEPT !.atoms[q].tv = ggml_opencog_tv_or(@, new_tv)],
              ret |-> q]

ggml_opencog_rule_inheritance_precondition_either_order(s, premises) ==
    IF Len(premises) # 2 THEN FALSE
    ELSE LET inh1 == s.atoms[premises[1]]
             inh2 == s.atoms[premises[2]]
         IN  IF inh1.type # OPENCOG_ATOM_INHERITANCE_LINK THEN FALSE
             ELSE IF inh2.type # OPENCOG_ATOM_INHERITANCE_LINK THEN FALSE
             ELSE IF Len(inh1.outgoing) # 2 \/ Len(inh2.outgoing) # 2 THEN FALSE
             ELSE \/ inh1.outgoing[2] = inh2.outgoing[1]
                  \/ inh2.outgoing[2] = inh1.outgoing[1]

ggml_opencog_rule_inheritance_precondition_first_only(s, premises) ==
    IF Len(premises) # 2 THEN FALSE
    ELSE LET inh1 == s.atoms[premises[1]]
             inh2 == s.atoms[premises[2]]
         IN  IF inh1.type # OPENCOG_ATOM_INHERITANCE_LINK THEN FALSE
             ELSE IF Len(inh1.outgoing) # 2 \/ Len(inh2.outgoing) # 2 THEN FALSE
             ELSE inh1.outgoing[2] = inh2.outgoing[1]

ggml_opencog_rule_inheritance_precondition(s, premises) ==
    IF Len(premises) # 2 THEN FALSE
    ELSE LET inh1 == s.atoms[premises[1]]
             inh2 == s.atoms[premises[2]]
         IN  IF inh1.type # OPENCOG_ATOM_INHERITANCE_LINK THEN FALSE
             ELSE IF inh2.type # OPENCOG_ATOM_INHERITANCE_LINK THEN FALSE
             ELSE IF Len(inh1.outgoing) # 2 \/ Len(inh2.outgoing) # 2 THEN FALSE
             ELSE inh1.outgoing[2] = inh2.outgoing[1]

ggml_opencog_rule_inheritance_conclusion_existing(s, premises) ==
    IF ~ggml_opencog_rule_inheritance_precondition(s, premises)
    THEN [as |-> s, ret |-> NULL]
    ELSE LET inh1 == s.atoms[premises[1]]
             inh2 == s.atoms[premises[2]]
             a == inh1.outgoing[1]
             c == inh2.outgoing[2]
             strength == fmul(inh1.tv.strength, inh2.tv.strength)
             confidence == fmul(fmul(inh1.tv.confidence, inh2.tv.confidence), Decay)
             count == fminf(inh1.tv.count, inh2.tv.count)
             new_tv == ggml_opencog_tv_create(strength, confidence, count)
             same == {k \in 1..n_atoms(s) :
                         /\ s.atoms[k].type = OPENCOG_ATOM_INHERITANCE_LINK
                         /\ s.atoms[k].outgoing = <<a, c>>}
         IN  IF same # {}
             THEN [as |-> s, ret |-> CHOOSE k \in same : \A h \in same : k <= h]
             ELSE ggml_opencog_link_create(s, OPENCOG_ATOM_INHERITANCE_LINK,
                                           <<a, c>>, new_tv)

ggml_opencog_rule_inheritance_conclusion_to_middle(s, premises) ==
    IF ~ggml_opencog_rule_inheritance_precondition(s, premises)
    THEN [as |-> s, ret |-> NULL]
    ELSE LET inh1 == s.atoms[premises[1]]
             inh2 == s.atoms[premises[2]]
             a == inh1.outgoing[1]
             c == inh2.outgoing[1]
             strength == fmul(inh1.tv.strength, inh2.tv.strength)
             confidence == fmul(fmul(inh1.tv.confidence, inh2.tv.confidence), Decay)
             count == fminf(inh1.tv.count, inh2.tv.count)
             new_tv == ggml_opencog_tv_create(strength, confidence, count)
         IN  ggml_opencog_link_create(s, OPENCOG_ATOM_INHERITANCE_LINK,
                                      <<a, c>>, new_tv)

ggml_opencog_rule_inheritance_conclusion(s, premises) ==
    IF ~ggml_opencog_rule_inheritance_precondition(s, premises)
    THEN [as |-> s, ret |-> NULL]
    ELSE LET inh1 == s.atoms[premises[1]]
             inh2 == s.atoms[premises[2]]
             a == inh1.outgoing[1]
             c == inh2.outgoing[2]
             strength == fmul(inh1.tv.strength, inh2.tv.strength)
             confidence == fmul(fmul(inh1.tv.confidence, inh2.tv.confidence), Decay)
             count == fminf(inh1.tv.count, inh2.tv.count)
             new_tv == ggml_opencog_tv_create(strength, confidence, count)
         IN  ggml_opencog_link_create(s, OPENCOG_ATOM_INHERITANCE_LINK,
                                      <<a, c>>, new_tv)

(***************************************************************************)
(* A registered rule is the pair of function pointers of one built-in      *)
(* rule; RuleNames are the two rules the library provides.                 *)
(***************************************************************************)
RuleNames == {"modus_ponens", "inheritance"}

rule_precondition(rule, s, premises) ==
    IF rule = "modus_ponens"
    THEN ggml_opencog_rule_modus_ponens_precondition(s, premises)
    ELSE ggml_opencog_rule_inheritance_precondition(s, premises)

rule_conclusion(rule, s, premises) ==
    IF rule = "modus_ponens"
    THEN ggml_opencog_rule_modus_ponens_conclusion(s, premises)
    ELSE ggml_opencog_rule_inheritance_conclusion(s, premises)

(***************************************************************************)
(* Unified Rule Engine (URE)                                               *)
(***************************************************************************)
\* The URE is bound to the one AtomSpace of the model; NoURE is the state of
\* the client before it has constructed the engine.
ggml_opencog_ure_init(atomspace, max_iterations, min_confidence) ==
    [atomspace |-> atomspace, max_iterations |-> max_iterations,
     min_confidence |-> min_confidence, rules |-> <<>>]

NoURE == ggml_opencog_ure_init("nullptr", 0, 0)

ggml_opencog_ure_add_rule(u, rule) ==
    [u EXCEPT !.rules = Append(@, rule)]

n_rules(u) == Len(u.rules)

(***************************************************************************)
(* The call frame of ggml_opencog_ure_forward_chain.  pc is the place of   *)
(* the call in the source:                                                 *)
(*   "idle"      no call in progress                                       *)
(*   "for_iter"  at the test of the outermost loop (line 377)              *)
(*   "conclusion" at the call of the conclusion of a rule whose            *)
(*               precondition holds for the pair (i, j) (line 393)         *)
(*   "iter_end"  after the rule loop, at the fixpoint test (line 410)      *)
(*   "return"    at a return statement (line 402 or 413)                   *)
(* as0, n_iters and trace record the history of the call: the atoms at the *)
(* call, the number of iterations begun, the number of atoms when the      *)
(* current iteration began, and one entry per pair tested.                 *)
(***************************************************************************)
IdleFrame ==
    [pc |-> "idle", target |-> NULL, inferences_made |-> 0, iter |-> 0,
     made_inference |-> FALSE, rule_idx |-> 0, i |-> 0, j |-> 0,
     as0 |-> <<>>, n_iters |-> 0, iter_n0 |-> 0, trace |-> <<>>]

\* lines 371-377: entry of the call
fc_call(s, target) ==
    [IdleFrame EXCEPT !.pc = "for_iter", !.target = target, !.as0 = s.atoms]

fc_premises_swapped(i, j) == <<j + 1, i + 1>>

\* lines 387-390: the premises of the pair (i, j)
fc_premises(i, j) == <<i + 1, j + 1>>

fc_accept_any(s, u, conclusion) == conclusion # NULL

fc_accept_strict(s, u, conclusion) ==
    /\ conclusion # NULL
    /\ s.atoms[conclusion].tv.confidence > u.min_confidence

\* line 396: the acceptance test of a conclusion
fc_accept(s, u, conclusion) ==
    /\ conclusion # NULL
    /\ s.atoms[conclusion].tv.confidence >= u.min_confidence

fc_reached_any(conclusion, target) == target # NULL

fc_reached_never(conclusion, target) == FALSE

\* line 401: the target test
fc_reached(conclusion, target) == conclusion = target

\* One entry of the history of the call: the pair tested, the premises passed
\* to the rule, the result of the precondition, and the conclusion returned
\* with the confidence read from it on line 396.
fc_entry(s, iter, rule_idx, i, j, premises, pre, conclusion) ==
    [iter |-> iter, rule_idx |-> rule_idx, i |-> i, j |-> j,
     premises |-> premises, precondition |-> pre, conclusion |-> conclusion,
     confidence |-> IF conclusion = NULL THEN 0
                    ELSE s.atoms[conclusion].tv.confidence]

\* The loops of lines 381, 385, 386 and the test of line 392, within iteration
\* iter: from a loop header, the pairs are tested in turn up to the first one
\* whose precondition holds (the call is then at line 393) or up to the end of
\* the rule loop.
RECURSIVE for_rule(_, _, _, _, _), for_i(_, _, _, _, _, _),
          for_j(_, _, _, _, _, _, _)
for_j_call_snapshot(s, u, f, iter, rule_idx, i, j) ==
    IF j < Len(f.as0)
    THEN IF rule_precondition(u.rules[rule_idx + 1], s, fc_premises(i, j))
         THEN [f EXCEPT !.pc = "conclusion", !.rule_idx = rule_idx,
                        !.i = i, !.j = j]
         ELSE for_j(s, u,
                    [f EXCEPT !.trace = Append(@,
                        fc_entry(s, iter, rule_idx, i, j, fc_premises(i, j),
                                 FALSE, NULL))],
                    iter, rule_idx, i, j + 1)
    ELSE for_i(s, u, f, iter, rule_idx, i + 1)
for_j_snapshot(s, u, f, iter, rule_idx, i, j) ==
    IF j < f.iter_n0
    THEN IF rule_precondition(u.rules[rule_idx + 1], s, fc_premises(i, j))
         THEN [f EXCEPT !.pc = "conclusion", !.rule_idx = rule_idx,
                        !.i = i, !.j = j]
         ELSE for_j(s, u,
                    [f EXCEPT !.trace = Append(@,
                        fc_entry(s, iter, rule_idx, i, j, fc_premises(i, j),
                                 FALSE, NULL))],
                    iter, rule_idx, i, j + 1)
    ELSE for_i(s, u, f, iter, rule_idx, i + 1)
for_j(s, u, f, iter, rule_idx, i, j) ==
    IF j < n_atoms(s)
    THEN IF rule_precondition(u.rules[rule_idx + 1], s, fc_premises(i, j))
         THEN [f EXCEPT !.pc = "conclusion", !.rule_idx = rule_idx,
                        !.i = i, !.j = j]
         ELSE for_j(s, u,
                    [f EXCEPT !.trace = Append(@,
                        fc_entry(s, iter, rule_idx, i, j, fc_premises(i, j),
                                 FALSE, NULL))],
                    iter, rule_idx, i, j + 1)
    ELSE for_i(s, u, f, iter, rule_idx, i + 1)
for_i_self_pair(s, u, f, iter, rule_idx, i) ==
    IF i < n_atoms(s)
    THEN for_j(s, u, f, iter, rule_idx, i, i)
    ELSE for_rule(s, u, f, iter, rule_idx + 1)
for_i(s, u, f, iter, rule_idx, i) ==
    IF i < n_atoms(s)
    THEN for_j(s, u, f, iter, rule_idx, i, i + 1)
    ELSE for_rule(s, u, f, iter, rule_idx + 1)
for_rule(s, u, f, iter, rule_idx) ==
    IF rule_idx < n_rules(u)
    THEN for_i(s, u, f, iter, rule_idx, 0)
    ELSE [f EXCEPT !.pc = "iter_end"]

fc_for_iter_one_more(s, u, f) ==
    IF f.iter <= u.max_iterations
    THEN for_rule(s, u, [f EXCEPT !.made_inference = FALSE, !.n_iters = @ + 1,
                                  !.iter_n0 = n_atoms(s)], f.iter, 0)
    ELSE [f EXCEPT !.pc = "return"]

\* line 377: the test of the outermost loop, and line 378
fc_for_iter(s, u, f) ==
    IF f.iter < u.max_iterations
    THEN for_rule(s, u, [f EXCEPT !.made_inference = FALSE, !.n_iters = @ + 1,
                                  !.iter_n0 = n_atoms(s)], f.iter, 0)
    ELSE [f EXCEPT !.pc = "return"]

fc_conclusion_next_i(s, u, f, conclusion) ==
    LET accepted == fc_accept(s, u, conclusion)
        f1 == [f EXCEPT !.trace = Append(@,
                            fc_entry(s, f.iter, f.rule_idx, f.i, f.j,
                                     fc_premises(f.i, f.j), TRUE, conclusion)),
                        !.made_inference = @ \/ accepted,
                        !.inferences_made = IF accepted THEN @ + 1 ELSE @]
    IN  IF accepted /\ fc_reached(conclusion, f.target)
        THEN [f1 EXCEPT !.pc = "return"]
        ELSE for_i(s, u, f1, f.iter, f.rule_idx, f.i + 1)

\* lines 396-405 once the conclusion of lines 393-394 has returned, s being
\* the space it left; then the increment of j and the loops up to the next pair
fc_conclusion(s, u, f, conclusion) ==
    LET accepted == fc_accept(s, u, conclusion)
        f1 == [f EXCEPT !.trace = Append(@,
                            fc_entry(s, f.iter, f.rule_idx, f.i, f.j,
                                     fc_premises(f.i, f.j), TRUE, conclusion)),
                        !.made_inference = @ \/ accepted,
                        !.inferences_made = IF accepted THEN @ + 1 ELSE @]
    IN  IF accepted /\ fc_reached(conclusion, f.target)
        THEN [f1 EXCEPT !.pc = "return"]
        ELSE for_j(s, u, f1, f.iter, f.rule_idx, f.i, f.j + 1)

fc_iter_end_no_fixpoint(f) ==
    [f EXCEPT !.pc = "for_iter", !.iter = @ + 1]

\* line 410, then the increment of the outermost loop
fc_iter_end(f) ==
    IF ~f.made_inference
    THEN [f EXCEPT !.pc = "return"]
    ELSE [f EXCEPT !.pc = "for_iter", !.iter = @ + 1]

(***************************************************************************)
(* The whole call, lines 371-414: from a frame, the space and the count    *)
(* the call returns with when nothing else touches the space meanwhile.    *)
(***************************************************************************)
RECURSIVE fc_run(_, _, _)
fc_run_conclusion(r, u, f) ==
    fc_run(r.as, u, fc_conclusion(r.as, u, f, r.ret))
fc_run(s, u, f) ==
    CASE f.pc = "for_iter" -> fc_run(s, u, fc_for_iter(s, u, f))
      [] f.pc = "conclusion" ->
             fc_run_conclusion(
                 rule_conclusion(u.rules[f.rule_idx + 1], s,
                                 fc_premises(f.i, f.j)), u, f)
      [] f.pc = "iter_end" -> fc_run(s, u, fc_iter_end(f))
      [] OTHER -> [as |-> s, ret |-> f.inferences_made]

ggml_opencog_ure_forward_chain(u, s, target) == fc_run(s, u, fc_call(s, target))

(***************************************************************************)
(* Inputs of the client.                                                   *)
(***************************************************************************)
Capacities == {0, MaxCap}
MaxIterations == {0, MaxIter}
MinConfidences == {50, 81}
Names == <<"a", "b">>
NodeTypes == {OPENCOG_ATOM_CONCEPT_NODE}
LinkTypes == {OPENCOG_ATOM_INHERITANCE_LINK, OPENCOG_ATOM_IMPLICATION_LINK}
InputTVs == {ggml_opencog_tv_create(80, 90, 1)}
Range(seq) == {seq[k] : k \in 1..Len(seq)}
Atoms(s) == 1..n_atoms(s)
Nodes(s) == {a \in Atoms(s) : s.atoms[a].type \in NodeTypes}
Outgoings(s) == {<<a>> : a \in Nodes(s)}
Premises(s) == {<<a>> : a \in Atoms(s)} \cup (Atoms(s) \X Atoms(s))

NoRet == [op |-> "none", val |-> NULL]

(***************************************************************************)
(* The single-threaded client: API calls are made when no chaining call is *)
(* in progress.  As in the example program, the client populates the       *)
(* AtomSpace, then constructs the engine and registers rules, then infers: *)
(* a session makes one inference call, a direct call of a rule conclusion  *)
(* or a chaining call.                                                     *)
(***************************************************************************)
Populating == ure = NoURE

Init ==
    /\ \E capacity \in Capacities :
           as = ggml_opencog_atomspace_init(capacity, 0)
    /\ ure = NoURE
    /\ fc = IdleFrame
    /\ ret = NoRet
    /\ client = [inferred |-> FALSE]

CreateAtom(type, name, tv) ==
    /\ fc.pc = "idle"
    /\ Populating
    /\ ggml_opencog_atom_get(as, name) = NULL
    /\ \A k \in 1..Len(Names) :
           Names[k] = name => \A h \in 1..(k - 1) :
                                 ggml_opencog_atom_get(as, Names[h]) # NULL
    /\ LET r == ggml_opencog_atom_create(as, type, name, tv)
       IN  as' = r.as /\ ret' = [op |-> "atom_create", val |-> r.ret]
    /\ UNCHANGED <<ure, fc, client>>

CreateLink(type, outgoing, tv) ==
    /\ fc.pc = "idle"
    /\ Populating
    /\ LET r == ggml_opencog_link_create(as, type, outgoing, tv)
       IN  as' = r.as /\ ret' = [op |-> "link_create", val |-> r.ret]
    /\ UNCHANGED <<ure, fc, client>>

AddLink(from, to, link_type, tv) ==
    /\ fc.pc = "idle"
    /\ Populating
    /\ LET r == ggml_opencog_atom_add_link(as, from, to, link_type, tv)
       IN  as' = r.as /\ ret' = [op |-> "add_link", val |-> r.ret]
    /\ UNCHANGED <<ure, fc, client>>

UreInit(max_iterations, min_confidence) ==
    /\ fc.pc = "idle"
    /\ ure = NoURE
    /\ ure' = ggml_opencog_ure_init("as", max_iterations, min_confidence)
    /\ ret' = [op |-> "ure_init", val |-> 1]
    /\ UNCHANGED <<as, fc, client>>

AddRule(rule) ==
    /\ fc.pc = "idle"
    /\ ure # NoURE
    /\ \A k \in 1..n_rules(ure) : ure.rules[k] # rule
    /\ ure' = ggml_opencog_ure_add_rule(ure, rule)
    /\ UNCHANGED <<as, fc, ret, client>>

Conclusion(rule, premises) ==
    /\ fc.pc = "idle"
    /\ ~client.inferred
    /\ LET r == rule_conclusion(rule, as, premises)
       IN  as' = r.as /\ ret' = [op |-> rule, val |-> r.ret]
    /\ client' = [client EXCEPT !.inferred = TRUE]
    /\ UNCHANGED <<ure, fc>>

ForwardChain(target) ==
    /\ fc.pc = "idle"
    /\ ure # NoURE
    /\ ~client.inferred
    /\ fc' = fc_call(as, target)
    /\ client' = [client EXCEPT !.inferred = TRUE]
    /\ UNCHANGED <<as, ure, ret>>

BackwardChain_without_query(query) == ForwardChain(NULL)

\* lines 416-423
BackwardChain(query) == ForwardChain(query)

\* lines 429-431
InferenceStep == ForwardChain(NULL)

FCForIter ==
    /\ fc.pc = "for_iter"
    /\ fc' = fc_for_iter(as, ure, fc)
    /\ UNCHANGED <<as, ure, ret, client>>

FCConclusion ==
    /\ fc.pc = "conclusion"
    /\ \E r \in {rule_conclusion(ure.rules[fc.rule_idx + 1], as,
                                  fc_premises(fc.i, fc.j))} :
           /\ as' = r.as
           /\ fc' = fc_conclusion(r.as, ure, fc, r.ret)
    /\ UNCHANGED <<ure, ret, client>>

FCIterEnd ==
    /\ fc.pc = "iter_end"
    /\ fc' = fc_iter_end(fc)
    /\ UNCHANGED <<as, ure, ret, client>>

\* lines 402, 413: the call returns inferences_made
FCReturn ==
    /\ fc.pc = "return"
    /\ ret' = [op |-> "forward_chain", val |-> fc.inferences_made]
    /\ fc' = IdleFrame
    /\ UNCHANGED <<as, ure, client>>

FCStep == FCForIter \/ FCConclusion \/ FCIterEnd \/ FCReturn

Next ==
    \/ \E type \in NodeTypes, name \in Range(Names), tv \in InputTVs :
           CreateAtom(type, name, tv)
    \/ \E type \in LinkTypes, outgoing \in Outgoings(as), tv \in InputTVs :
           CreateLink(type, outgoing, tv)
    \/ \E from \in Nodes(as), to \in Nodes(as), type \in LinkTypes,
          tv \in InputTVs : AddLink(from, to, type, tv)
    \/ \E mi \in MaxIterations, mc \in MinConfidences : UreInit(mi, mc)
    \/ \E rule \in RuleNames : AddRule(rule)
    \/ \E rule \in RuleNames, premises \in Premises(as) :
           Conclusion(rule, premises)
    \/ \E target \in Nodes(as) : ForwardChain(target)
    \/ \E query \in Nodes(as) : BackwardChain(query)
    \/ InferenceStep
    \/ FCForIter
    \/ FCConclusion
    \/ FCIterEnd
    \/ FCReturn

Spec == Init /\ [][Next]_vars

\* A call in progress keeps executing: the program is sequential and the call
\* is not suspended.
FairSpec == Spec /\ WF_vars(FCStep)

(***************************************************************************)
(* The client of the rules: it populates a space of capacity MaxDirect     *)
(* with nodes and binary links between any of its atoms, whose truth       *)
(* values it built with the truth-value operations, then calls the         *)
(* conclusion of a rule directly.                                          *)
(***************************************************************************)
RuleTVs ==
    {ggml_opencog_tv_create(80, 90, 1),
     ggml_opencog_tv_and(ggml_opencog_tv_create(150, 70, 2),
                         ggml_opencog_tv_not(ggml_opencog_tv_create(40, 150, -1)))}

RuleInit ==
    /\ as = ggml_opencog_atomspace_init(MaxDirect, 0)
    /\ ure = NoURE
    /\ fc = IdleFrame
    /\ ret = NoRet
    /\ client = [inferred |-> FALSE]

\* The client creates while the space has room and until it has called a
\* conclusion.
RuleCreating == ~client.inferred /\ n_atoms(as) < as.capacity

RuleNext ==
    \/ \E type \in NodeTypes, name \in Range(Names), tv \in RuleTVs :
           RuleCreating /\ CreateAtom(type, name, tv)
    \/ \E from \in Atoms(as), to \in Atoms(as), type \in LinkTypes,
          tv \in RuleTVs : RuleCreating /\ AddLink(from, to, type, tv)
    \/ \E rule \in RuleNames, premises \in Premises(as) :
           Conclusion(rule, premises)

RuleSpec == RuleInit /\ [][RuleNext]_vars

(***************************************************************************)
(* The client that stores atoms and inspects the AtomSpace: nodes          *)
(* whose names may repeat and differ in case only, links over any stored   *)
(* atoms, name lookups that hit or miss, and queries by type.  The         *)
(* truth values are those of the pattern matching test and one of          *)
(* confidence exactly 0.5.                                                 *)
(***************************************************************************)
StoreNames == {"a", "A"}
LookupNames == StoreNames \cup {"c"}
StoreNodeTypes == {OPENCOG_ATOM_CONCEPT_NODE}
StoreLinkTypes == {OPENCOG_ATOM_INHERITANCE_LINK}
tv_high == ggml_opencog_tv_create(90, 80, 10)
tv_low == ggml_opencog_tv_create(30, 40, 1)
StoreTVs == {tv_high, tv_low, ggml_opencog_tv_create(50, 50, 0)}
StoreLinkTVs == {tv_high, tv_low}
StoreOutgoings(s) == {<<a>> : a \in Atoms(s)} \cup (Atoms(s) \X Atoms(s))
PatternTypes ==
    {OPENCOG_ATOM_CONCEPT_NODE, OPENCOG_ATOM_PREDICATE_NODE,
     OPENCOG_ATOM_INHERITANCE_LINK}
Patterns ==
    {[type |-> type, name |-> NoName, tv |-> ggml_opencog_tv_create(0, 0, 0),
      outgoing |-> <<>>] : type \in PatternTypes}
    \cup {[type |-> type, name |-> "a", tv |-> tv_high, outgoing |-> <<>>] :
             type \in PatternTypes}

StoreInit ==
    /\ as = ggml_opencog_atomspace_init(MaxStore, 0)
    /\ ure = NoURE
    /\ fc = IdleFrame
    /\ ret = NoRet
    /\ client = [inferred |-> FALSE]

AtomCreate(type, name, tv) ==
    /\ LET r == ggml_opencog_atom_create(as, type, name, tv)
       IN  as' = r.as /\ ret' = [op |-> "atom_create", val |-> r.ret]
    /\ UNCHANGED <<ure, fc, client>>

LinkCreate(type, outgoing, tv) ==
    /\ LET r == ggml_opencog_link_create(as, type, outgoing, tv)
       IN  as' = r.as /\ ret' = [op |-> "link_create", val |-> r.ret]
    /\ UNCHANGED <<ure, fc, client>>

AtomGet(name) ==
    /\ ret' = [op |-> "atom_get", val |-> ggml_opencog_atom_get(as, name),
               name |-> name]
    /\ UNCHANGED <<as, ure, fc, client>>

Query(pattern) ==
    /\ LET r == ggml_opencog_query(as, pattern)
       IN  ret' = [op |-> "query", val |-> r.ret, n_results |-> r.n_results,
                   pattern |-> pattern]
    /\ UNCHANGED <<as, ure, fc, client>>

StoreNext ==
    \/ \E type \in StoreNodeTypes, name \in StoreNames, tv \in StoreTVs :
           AtomCreate(type, name, tv)
    \/ \E type \in StoreLinkTypes, outgoing \in StoreOutgoings(as),
          tv \in StoreLinkTVs : LinkCreate(type, outgoing, tv)
    \/ \E name \in LookupNames : AtomGet(name)
    \/ \E pattern \in Patterns : Query(pattern)

StoreSpec == StoreInit /\ [][StoreNext]_vars

(***************************************************************************)
(* The client of the truth-value operations: it creates a truth value from *)
(* raw floats, in range or not, and combines the value it holds with       *)
(* itself or with another created value, up to MaxOps operations deep.     *)
(* ret holds the last result, its operands and the depth of the operation. *)
(***************************************************************************)
RawStrengths == {-20, 50, 80, 150}
RawConfidences == {-50, 90}
RawCounts == {-1, 2}
CreatedTVs ==
    {ggml_opencog_tv_create(s, c, n) :
        s \in RawStrengths, c \in RawConfidences, n \in RawCounts}
TvOps == {"tv_create", "tv_and", "tv_or", "tv_not"}

TvInit ==
    /\ as = ggml_opencog_atomspace_init(0, 0)
    /\ ure = NoURE
    /\ fc = IdleFrame
    /\ ret = NoRet
    /\ client = [inferred |-> FALSE]

TvCreate(strength, confidence, count) ==
    /\ ret' = [op |-> "tv_create",
               val |-> ggml_opencog_tv_create(strength, confidence, count),
               args |-> <<>>, depth |-> 0]
    /\ UNCHANGED <<as, ure, fc, client>>

TvAnd(tv2) ==
    /\ ret.op \in TvOps
    /\ ret.depth < MaxOps
    /\ ret' = [op |-> "tv_and", val |-> ggml_opencog_tv_and(ret.val, tv2),
               args |-> <<ret.val, tv2>>, depth |-> ret.depth + 1]
    /\ UNCHANGED <<as, ure, fc, client>>

TvOr(tv2) ==
    /\ ret.op \in TvOps
    /\ ret.depth < MaxOps
    /\ ret' = [op |-> "tv_or", val |-> ggml_opencog_tv_or(ret.val, tv2),
               args |-> <<ret.val, tv2>>, depth |-> ret.depth + 1]
    /\ UNCHANGED <<as, ure, fc, client>>

TvNot ==
    /\ ret.op \in TvOps
    /\ ret.depth < MaxOps
    /\ ret' = [op |-> "tv_not", val |-> ggml_opencog_tv_not(ret.val),
               args |-> <<ret.val>>, depth |-> ret.depth + 1]
    /\ UNCHANGED <<as, ure, fc, client>>

TvOperands ==
    CreatedTVs \cup (IF ret.op \in TvOps THEN {ret.val} ELSE {})

TvNext ==
    \/ \E s \in RawStrengths, c \in RawConfidences, n \in RawCounts :
           TvCreate(s, c, n)
    \/ \E tv2 \in TvOperands : TvAnd(tv2)
    \/ \E tv2 \in TvOperands : TvOr(tv2)
    \/ TvNot

TvSpec == TvInit /\ [][TvNext]_vars

(***************************************************************************)
(* The client of the example program: it populates the AtomSpace by a       *)
(* script of creations (nodes, then links between them), constructs the    *)
(* engine, registers rules and makes up to MaxCalls chaining calls.  Each  *)
(* script is a knowledge base: a chain A -> B, B -> C, the same with the    *)
(* links created in the other order, a loop A -> A with A -> B, and an     *)
(* implication P => Q with two choices of truth values.                    *)
(***************************************************************************)
Node(name, tv) == [op |-> "node", name |-> name, tv |-> tv]
Link(type, from, to, tv) ==
    [op |-> "link", type |-> type, from |-> from, to |-> to, tv |-> tv]

ScriptNames == {"chain", "reverse", "loop", "implies", "implies_small"}

Script(name) ==
    CASE name = "chain" ->
           <<Node("A", default_tv), Node("B", default_tv),
             Node("C", default_tv),
             Link(OPENCOG_ATOM_INHERITANCE_LINK, 1, 2, default_tv),
             Link(OPENCOG_ATOM_INHERITANCE_LINK, 2, 3, default_tv)>>
      [] name = "reverse" ->
           <<Node("A", default_tv), Node("B", default_tv),
             Node("C", default_tv),
             Link(OPENCOG_ATOM_INHERITANCE_LINK, 2, 3, default_tv),
             Link(OPENCOG_ATOM_INHERITANCE_LINK, 1, 2, default_tv)>>
      [] name = "loop" ->
           <<Node("A", default_tv), Node("B", default_tv),
             Link(OPENCOG_ATOM_INHERITANCE_LINK, 1, 1, default_tv),
             Link(OPENCOG_ATOM_INHERITANCE_LINK, 1, 2, default_tv)>>
      [] name = "implies" ->
           <<Node("P", default_tv),
             Node("Q", ggml_opencog_tv_create(50, 90, 1)),
             Link(OPENCOG_ATOM_IMPLICATION_LINK, 1, 2, default_tv)>>
      [] name = "implies_small" ->
           <<Node("P", ggml_opencog_tv_create(10, 90, 1)),
             Node("Q", ggml_opencog_tv_create(99, 90, 1)),
             Link(OPENCOG_ATOM_IMPLICATION_LINK, 1, 2,
                  ggml_opencog_tv_create(10, 90, 1))>>

ChainCapacities == {6, MaxChain}
ChainIterations == 0..MaxIter
ChainMinConfidences == {50, 95}
ChainTargets(s) == {NULL} \cup Atoms(s)

ChainInit ==
    /\ \E capacity \in ChainCapacities :
           as = ggml_opencog_atomspace_init(capacity, 0)
    /\ ure = NoURE
    /\ fc = IdleFrame
    /\ ret = NoRet
    /\ \E name \in ScriptNames :
           client = [inferred |-> FALSE, script |-> name, pos |-> 0,
                     calls |-> 0]

\* The next creation of the script.
ChainPopulate ==
    /\ fc.pc = "idle"
    /\ Populating
    /\ client.pos < Len(Script(client.script))
    /\ LET c == Script(client.script)[client.pos + 1]
       IN  IF c.op = "node"
           THEN LET r == ggml_opencog_atom_create(
                             as, OPENCOG_ATOM_CONCEPT_NODE, c.name, c.tv)
                IN  as' = r.as /\ ret' = [op |-> "atom_create", val |-> r.ret]
           ELSE LET r == ggml_opencog_atom_add_link(
                             as, c.from, c.to, c.type, c.tv)
                IN  as' = r.as /\ ret' = [op |-> "add_link", val |-> r.ret]
    /\ client' = [client EXCEPT !.pos = @ + 1]
    /\ UNCHANGED <<ure, fc>>

ChainUreInit(max_iterations, min_confidence) ==
    /\ client.pos = Len(Script(client.script))
    /\ UreInit(max_iterations, min_confidence)

ChainAddRule(rule) ==
    /\ client.calls = 0
    /\ AddRule(rule)

\* A chaining call: forward_chain with a target or without, or one of its two
\* wrappers.
ChainCall(target) ==
    /\ fc.pc = "idle"
    /\ ure # NoURE
    /\ client.calls < MaxCalls
    /\ fc' = fc_call(as, target)
    /\ client' = [client EXCEPT !.calls = @ + 1]
    /\ UNCHANGED <<as, ure, ret>>

ChainNext ==
    \/ ChainPopulate
    \/ \E mi \in ChainIterations, mc \in ChainMinConfidences :
           ChainUreInit(mi, mc)
    \/ \E rule \in RuleNames : ChainAddRule(rule)
    \/ \E target \in ChainTargets(as) : ChainCall(target)
    \/ FCForIter
    \/ FCConclusion
    \/ FCIterEnd
    \/ FCReturn

ChainSpec == ChainInit /\ [][ChainNext]_vars

(***************************************************************************)
(* Two threads on one AtomSpace: the client of the example program makes   *)
(* one chaining call while a second writer adds one link between two nodes *)
(* or overwrites the truth value of a node.  The library takes no lock; the*)
(* lock is the callers'.  With client.lock = "mutation" it is held around  *)
(* each mutation of an atom only, so that the writer's mutation falls       *)
(* between two steps of the call; with client.lock = "call" the chaining   *)
(* thread holds it from the call to its return.  The client records the    *)
(* writer's mutations made during the call: wrote, and for an appended     *)
(* atom its index watom and the place wpos where the call stood.           *)
(***************************************************************************)
Locks == {"mutation", "call"}
NoPos == [pc |-> "idle", iter |-> 0, rule_idx |-> 0, i |-> 0, j |-> 0]

ConcInit ==
    /\ \E capacity \in ChainCapacities :
           as = ggml_opencog_atomspace_init(capacity, 0)
    /\ ure = NoURE
    /\ fc = IdleFrame
    /\ ret = NoRet
    /\ \E name \in ScriptNames, lock \in Locks :
           client = [inferred |-> FALSE, script |-> name, pos |-> 0,
                     calls |-> 0, lock |-> lock, written |-> FALSE,
                     wrote |-> FALSE, watom |-> NULL, wpos |-> NoPos]

ConcCall(target) ==
    /\ client.calls = 0
    /\ ChainCall(target)

\* The writer may take the lock: no call holds it.
WriterFree ==
    /\ ure # NoURE
    /\ ~client.written
    /\ client.lock = "mutation" \/ fc.pc = "idle"

WriterAddLink(from, to, link_type, tv) ==
    /\ WriterFree
    /\ LET r == ggml_opencog_atom_add_link(as, from, to, link_type, tv)
       IN  /\ as' = r.as
           /\ client' = [client EXCEPT
                  !.written = TRUE,
                  !.wrote = fc.pc # "idle",
                  !.watom = IF r.ret /\ fc.pc # "idle"
                            THEN n_atoms(r.as) ELSE NULL,
                  !.wpos = [pc |-> fc.pc, iter |-> fc.iter,
                            rule_idx |-> fc.rule_idx, i |-> fc.i, j |-> fc.j]]
    /\ UNCHANGED <<ure, fc, ret>>

\* The writer assigns the tv field of a stored atom.
WriterSetTv(atom, tv) ==
    /\ WriterFree
    /\ as' = [as EXCEPT !.atoms[atom].tv = tv]
    /\ client' = [client EXCEPT !.written = TRUE, !.wrote = fc.pc # "idle"]
    /\ UNCHANGED <<ure, fc, ret>>

WriterTVs == {ggml_opencog_tv_create(100, 100, 1)}

ConcNext ==
    \/ ChainPopulate
    \/ \E mi \in ChainIterations, mc \in ChainMinConfidences :
           ChainUreInit(mi, mc)
    \/ \E rule \in RuleNames : ChainAddRule(rule)
    \/ \E target \in ChainTargets(as) : ConcCall(target)
    \/ FCForIter
    \/ FCConclusion
    \/ FCIterEnd
    \/ FCReturn
    \/ \E from \in Nodes(as), to \in Nodes(as) :
           WriterAddLink(from, to, OPENCOG_ATOM_INHERITANCE_LINK, default_tv)
    \/ \E atom \in Nodes(as), tv \in WriterTVs : WriterSetTv(atom, tv)

ConcSpec == ConcInit /\ [][ConcNext]_vars

(***************************************************************************)
(* Properties.                                                             *)
(***************************************************************************)

\* C1: in every reachable state of a space initialised with capacity N >= 0,
\* whatever creations, direct rule conclusions and chaining calls were made,
\* the atom count satisfies 0 <= n_atoms <= N.
C1_CountWithinCapacity ==
    /\ 0 <= n_atoms(as)
    /\ n_atoms(as) <= as.capacity

\* A chaining call has filled the space to its capacity with derived links.
C1_Witness ==
    /\ fc.pc = "return"
    /\ as.capacity > 0
    /\ n_atoms(as) = as.capacity
    /\ n_atoms(as) > Len(fc.as0)

CreationStep ==
    \/ \E type \in NodeTypes, name \in Range(Names), tv \in InputTVs :
           CreateAtom(type, name, tv)
    \/ \E type \in LinkTypes, outgoing \in Outgoings(as), tv \in InputTVs :
           CreateLink(type, outgoing, tv)
    \/ \E from \in Nodes(as), to \in Nodes(as), type \in LinkTypes,
          tv \in InputTVs : AddLink(from, to, type, tv)

Absent(r) == IF r.op = "add_link" THEN r.val = FALSE ELSE r.val = NULL

\* C2: when n_atoms = capacity, createAtom and createLink return absent,
\* addLink returns false, and the count and every stored atom are unchanged.
C2_FullSpaceRejectsCreation ==
    [][(n_atoms(as) = as.capacity /\ Populating /\ CreationStep)
          => (Absent(ret') /\ as' = as)]_vars

\* A creation was attempted on a full, non-empty space and returned absent.
C2_Witness ==
    /\ as.capacity > 0
    /\ n_atoms(as) = as.capacity
    /\ ret.op \in {"atom_create", "link_create", "add_link"}
    /\ Absent(ret)

(***************************************************************************)
(* The history of a chaining call.                                         *)
(***************************************************************************)
TraceIndex(f) == 1..Len(f.trace)

\* The conclusion of entry e was present with confidence >= min_confidence.
Accepted(e) == e.conclusion # NULL /\ e.confidence >= ure.min_confidence

AcceptedEntries(f) == {k \in TraceIndex(f) : Accepted(f.trace[k])}

AcceptedIn(f, it) ==
    \E k \in TraceIndex(f) : f.trace[k].iter = it /\ Accepted(f.trace[k])

IterationCap == IF ure.max_iterations > 0 THEN ure.max_iterations ELSE 0

\* C3: forwardChain(None) eventually returns, having run at most
\* max_iterations iterations (none when max_iterations <= 0), and the value it
\* returns is >= 0, although conclusions append atoms to the sequence the scan
\* enumerates.
C3_ForwardChainTerminates ==
    /\ [](fc.n_iters <= IterationCap /\ fc.inferences_made >= 0)
    /\ [](ret.op = "forward_chain" => ret.val >= 0)
    /\ (fc.pc # "idle" /\ fc.target = NULL)
           ~> (fc.pc = "idle" /\ ret.op = "forward_chain")

\* A call without target is about to return after it ran up to the iteration
\* cap and its conclusions appended atoms during the scan.
C3_Witness ==
    /\ fc.pc = "return"
    /\ fc.target = NULL
    /\ fc.n_iters = ure.max_iterations
    /\ n_atoms(as) > Len(fc.as0)

\* C4 as claimed: whenever a conclusion invoked during forwardChain(target)
\* returns the target atom, the call stops at once: that application is the
\* last one and the call is at its return.
C4_AnyTargetConclusionStops ==
    \A k \in TraceIndex(fc) :
        (fc.trace[k].conclusion # NULL /\ fc.trace[k].conclusion = fc.target)
            => (k = Len(fc.trace) /\ fc.pc = "return")

\* C4 amended: whenever a conclusion invoked during forwardChain(target)
\* returns the target atom with confidence >= min_confidence, the call stops
\* at once (no further precondition test or conclusion is executed) and
\* returns the number of accepted inferences made so far, that one included.
C4_AcceptedTargetStops ==
    \A k \in TraceIndex(fc) :
        (Accepted(fc.trace[k]) /\ fc.trace[k].conclusion = fc.target)
            => /\ k = Len(fc.trace)
               /\ fc.pc = "return"
               /\ fc.inferences_made = Cardinality(AcceptedEntries(fc))

\* The call stops on its target after an earlier accepted inference.
C4_Witness ==
    /\ fc.pc = "return"
    /\ fc.target # NULL
    /\ Len(fc.trace) > 0
    /\ Accepted(fc.trace[Len(fc.trace)])
    /\ fc.trace[Len(fc.trace)].conclusion = fc.target
    /\ fc.inferences_made >= 2

\* C5: iteration k+1 begins only if iteration k accepted at least one
\* inference and k < max_iterations; an iteration that completes with zero
\* accepted inferences is followed by the return.
C5_IterationsStopAtFixpointOrCap ==
    [][/\ (fc'.n_iters = fc.n_iters + 1)
             => /\ fc.n_iters < ure.max_iterations
                /\ fc.n_iters >= 1 => AcceptedIn(fc, fc.n_iters - 1)
       /\ (fc.pc = "iter_end" /\ ~AcceptedIn(fc, fc.iter))
             => fc'.pc = "return"]_vars

\* A second iteration was begun and has completed with no accepted inference.
C5_Witness ==
    /\ fc.pc = "iter_end"
    /\ fc.n_iters = 2
    /\ ~AcceptedIn(fc, fc.iter)
    /\ \E k \in TraceIndex(fc) : fc.trace[k].iter = fc.iter
                                  /\ fc.trace[k].precondition

\* Some registered rule's precondition holds for a pair (atoms[i], atoms[j])
\* with i < j of the space as it was when the call was made.
InitialPairMatches ==
    \E r \in 1..n_rules(ure), a \in 1..Len(fc.as0), b \in 1..Len(fc.as0) :
        /\ a < b
        /\ rule_precondition(ure.rules[r], [atoms |-> fc.as0], <<a, b>>)

\* C6: if no registered rule's precondition holds for any pair of the initial
\* space, forwardChain returns 0 after a single pass and leaves the AtomSpace
\* unchanged.
C6_NoMatchReturnsZero ==
    (fc.pc = "return" /\ ~InitialPairMatches)
        => /\ fc.inferences_made = 0
           /\ as.atoms = fc.as0
           /\ fc.n_iters <= 1
           /\ ure.max_iterations > 0 => fc.n_iters = 1

\* A call with rules registered and at least two atoms found no matching pair.
C6_Witness ==
    /\ fc.pc = "return"
    /\ ~InitialPairMatches
    /\ n_rules(ure) > 0
    /\ Len(fc.as0) >= 2
    /\ fc.n_iters = 1

\* C7: the value returned by forwardChain is the number of rule applications
\* of the call whose conclusion was present with confidence >= min_confidence;
\* the other applications do not mark the iteration productive.
C7_ReturnCountsAccepted ==
    [][/\ (fc.pc = "return" /\ fc'.pc = "idle")
             => /\ ret'.op = "forward_chain"
                /\ ret'.val = Cardinality(AcceptedEntries(fc))
       /\ (fc'.pc \in {"conclusion", "iter_end"})
             => (fc'.made_inference <=> AcceptedIn(fc', fc'.iter))]_vars

\* A call is about to return a positive count after an application that was
\* not accepted.
C7_Witness ==
    /\ fc.pc = "return"
    /\ fc.inferences_made >= 1
    /\ \E k \in TraceIndex(fc) : fc.trace[k].precondition
                                  /\ ~Accepted(fc.trace[k])

LexLess(e1, e2) ==
    \/ e1.rule_idx < e2.rule_idx
    \/ e1.rule_idx = e2.rule_idx /\ e1.i < e2.i
    \/ e1.rule_idx = e2.rule_idx /\ e1.i = e2.i /\ e1.j < e2.j

\* C8: within an iteration the pairs are tested in lexicographic order of
\* (rule index, i, j) with i < j, the rule is passed [atoms[i], atoms[j]], and
\* every pair present when the iteration began is tested for every rule.
C8_LexicographicOrder ==
    /\ \A k \in TraceIndex(fc) :
           /\ fc.trace[k].rule_idx \in 0..(n_rules(ure) - 1)
           /\ 0 <= fc.trace[k].i
           /\ fc.trace[k].i < fc.trace[k].j
           /\ fc.trace[k].premises = <<fc.trace[k].i + 1, fc.trace[k].j + 1>>
    /\ \A k \in 1..(Len(fc.trace) - 1) :
           \/ fc.trace[k].iter < fc.trace[k + 1].iter
           \/ /\ fc.trace[k].iter = fc.trace[k + 1].iter
              /\ LexLess(fc.trace[k], fc.trace[k + 1])
    /\ fc.pc = "iter_end"
           => \A r \in 0..(n_rules(ure) - 1), i \in 0..(fc.iter_n0 - 1),
                 j \in 0..(fc.iter_n0 - 1) :
                  i < j => \E k \in TraceIndex(fc) :
                               /\ fc.trace[k].iter = fc.iter
                               /\ fc.trace[k].rule_idx = r
                               /\ fc.trace[k].i = i
                               /\ fc.trace[k].j = j

\* An iteration over two rules and at least three atoms has completed, the
\* second rule having been applied.
C8_Witness ==
    /\ fc.pc = "iter_end"
    /\ n_rules(ure) = 2
    /\ fc.iter_n0 >= 3
    /\ \E k \in TraceIndex(fc) : fc.trace[k].rule_idx = 1
                                  /\ fc.trace[k].precondition

\* The premises fail the precondition of modus ponens: premise count # 2,
\* second premise not an ImplicationLink, outgoing count # 2, or first
\* outgoing atom not the first premise.
ModusPonensUnmet(s, premises) ==
    \/ Len(premises) # 2
    \/ s.atoms[premises[2]].type # OPENCOG_ATOM_IMPLICATION_LINK
    \/ Len(s.atoms[premises[2]].outgoing) # 2
    \/ s.atoms[premises[2]].outgoing[1] # premises[1]

\* The premises fail the precondition of inheritance transitivity.
InheritanceUnmet(s, premises) ==
    \/ Len(premises) # 2
    \/ s.atoms[premises[1]].type # OPENCOG_ATOM_INHERITANCE_LINK
    \/ s.atoms[premises[2]].type # OPENCOG_ATOM_INHERITANCE_LINK
    \/ Len(s.atoms[premises[1]].outgoing) # 2
    \/ Len(s.atoms[premises[2]].outgoing) # 2
    \/ s.atoms[premises[1]].outgoing[2] # s.atoms[premises[2]].outgoing[1]

Unmet(rule, s, premises) ==
    IF rule = "modus_ponens" THEN ModusPonensUnmet(s, premises)
    ELSE InheritanceUnmet(s, premises)

\* C10: a conclusion invoked on premises that fail its own precondition
\* returns absent and leaves the AtomSpace unchanged.  Stated by its
\* contrapositive: a direct call that returns an atom or changes the space was
\* not made on premises that fail the precondition of its rule.
C10_UnmetConclusionHasNoEffect ==
    [][(ret'.op \in RuleNames /\ (ret'.val # NULL \/ as' # as))
           => \A rule \in RuleNames, premises \in Premises(as) :
                  Conclusion(rule, premises) => ~Unmet(rule, as, premises)]_vars

\* A direct call of the transitivity conclusion returned absent although the
\* space has room for a link: its premises failed the precondition.
C10_Witness ==
    /\ ret.op = "inheritance"
    /\ ret.val = NULL
    /\ n_atoms(as) >= 2
    /\ n_atoms(as) < as.capacity

\* x is the real number num / den to within one unit of the fixed-point scale.
Near(x, num, den) == x * den - num <= den /\ num - x * den <= den

\* The fixed-point numbers within one unit of the real number num / den.
NearSet(num, den) ==
    {x \in ((num \div den) - 1)..((num \div den) + 1) : Near(x, num, den)}

\* The link that premises [A->B, B->C] of the transitivity rule derive.
IsDerivedLink(atom, inh1, inh2) ==
    /\ atom.type = OPENCOG_ATOM_INHERITANCE_LINK
    /\ atom.name = NoName
    /\ atom.outgoing = <<inh1.outgoing[1], inh2.outgoing[2]>>
    /\ Near(atom.tv.strength, inh1.tv.strength * inh2.tv.strength, One)
    /\ Near(atom.tv.confidence,
            inh1.tv.confidence * inh2.tv.confidence * Decay, One * One)
    /\ atom.tv.count = fminf(inh1.tv.count, inh2.tv.count)

\* C11: for premises [A->B, B->C] that satisfy the transitivity precondition,
\* the conclusion appends exactly one atom, the InheritanceLink A->C with
\* truth value (s1*s2, c1*c2*0.9, min(n1,n2)), returns it and leaves the
\* earlier atoms unchanged; on a full space it returns absent and changes
\* nothing.
C11_TransitivityDerivesLink ==
    [][(ret'.op = "inheritance")
           => \A premises \in Premises(as) :
                  (Conclusion("inheritance", premises)
                     /\ ~InheritanceUnmet(as, premises))
                  => IF n_atoms(as) < as.capacity
                     THEN /\ n_atoms(as') = n_atoms(as) + 1
                          /\ SubSeq(as'.atoms, 1, n_atoms(as)) = as.atoms
                          /\ as'.capacity = as.capacity
                          /\ IsDerivedLink(as'.atoms[n_atoms(as')],
                                           as.atoms[premises[1]],
                                           as.atoms[premises[2]])
                          /\ ret'.val = n_atoms(as')
                     ELSE ret'.val = NULL /\ as' = as]_vars

\* The transitivity conclusion returned a new link A->C whose ends differ
\* from each other and whose premises had different truth values.
C11_Witness ==
    /\ ret.op = "inheritance"
    /\ ret.val # NULL
    /\ ret.val = n_atoms(as)
    /\ as.atoms[ret.val].outgoing[1] # as.atoms[ret.val].outgoing[2]
    /\ as.atoms[ret.val].tv.confidence < 73

\* merged is or(old, (s_P*s_imp, c_P*c_imp, min(n_P,n_imp))): strength
\* s + d - s*d for the derived strength d, the smaller confidence and the
\* larger count.
IsMerged(merged, old, tv_p, tv_imp) ==
    \E ds \in NearSet(tv_p.strength * tv_imp.strength, One),
       dc \in NearSet(tv_p.confidence * tv_imp.confidence, One) :
        /\ Near(merged.strength,
                (old.strength + ds) * One - old.strength * ds, One)
        /\ merged.confidence = fminf(old.confidence, dc)
        /\ merged.count = fmaxf(old.count, fminf(tv_p.count, tv_imp.count))

\* C12: for premises [P, P->Q] that satisfy the modus-ponens precondition, the
\* conclusion returns Q, sets Q's truth value to or(Q's previous truth value,
\* (s_P*s_imp, c_P*c_imp, min(n_P,n_imp))), appends no atom and changes no
\* other atom.
C12_ModusPonensMergesIntoQ ==
    [][(ret'.op = "modus_ponens")
           => \A premises \in Premises(as) :
                  (Conclusion("modus_ponens", premises)
                     /\ ~ModusPonensUnmet(as, premises))
                  => LET q == as.atoms[premises[2]].outgoing[2]
                     IN  /\ ret'.val = q
                         /\ n_atoms(as') = n_atoms(as)
                         /\ as'.capacity = as.capacity
                         /\ \A k \in Atoms(as) :
                                /\ as'.atoms[k].type = as.atoms[k].type
                                /\ as'.atoms[k].name = as.atoms[k].name
                                /\ as'.atoms[k].outgoing = as.atoms[k].outgoing
                                /\ k # q => as'.atoms[k].tv = as.atoms[k].tv
                         /\ IsMerged(as'.atoms[q].tv, as.atoms[q].tv,
                                     as.atoms[premises[1]].tv,
                                     as.atoms[premises[2]].tv)]_vars

\* Modus ponens returned an atom Q whose truth value it changed, in a space
\* where another atom keeps a different truth value.
C12_Witness ==
    /\ ret.op = "modus_ponens"
    /\ ret.val # NULL
    /\ as.atoms[ret.val].tv \notin RuleTVs
    /\ \E k \in Atoms(as) : /\ k < ret.val
                            /\ as.atoms[k].tv \in RuleTVs
                            /\ as.atoms[k].tv.count # as.atoms[ret.val].tv.count

\* C13: OR-merge is idempotent: or(tv, tv) = tv in strength, confidence and
\* count, for every truth value tv with fields in range.
C13_OrIdempotent ==
    (ret.op = "tv_or" /\ ret.args[1] = ret.args[2]) => ret.val = ret.args[1]

InRange(tv) ==
    /\ 0 <= tv.strength /\ tv.strength <= One
    /\ 0 <= tv.confidence /\ tv.confidence <= One
    /\ 0 <= tv.count

Appended(s, t, r, atom) ==
    /\ n_atoms(t) = n_atoms(s) + 1
    /\ t.atoms[n_atoms(s) + 1] = atom
    /\ SubSeq(t.atoms, 1, n_atoms(s)) = s.atoms
    /\ t.capacity = s.capacity
    /\ r.val = n_atoms(s) + 1

\* C15: a successful createAtom or createLink (n_atoms < capacity) appends
\* exactly one atom at index n_atoms with the given type, name (none for a
\* link), truth value and outgoing sequence (empty for a node), increases
\* n_atoms by one, returns that atom and leaves every atom stored before at
\* its index, unchanged.
C15_CreationAppendsOne ==
    [][(ret'.op \in {"atom_create", "link_create"}
            /\ n_atoms(as) < as.capacity)
          => /\ \A type \in StoreNodeTypes, name \in StoreNames,
                   tv \in StoreTVs :
                    AtomCreate(type, name, tv)
                        => Appended(as, as', ret',
                               [type |-> type, name |-> name, tv |-> tv,
                                outgoing |-> <<>>])
             /\ \A type \in StoreLinkTypes, outgoing \in StoreOutgoings(as),
                   tv \in StoreLinkTVs :
                    LinkCreate(type, outgoing, tv)
                        => Appended(as, as', ret',
                               [type |-> type, name |-> NoName, tv |-> tv,
                                outgoing |-> outgoing])]_vars

\* A link over two stored atoms was created after other atoms and returned.
C15_Witness ==
    /\ ret.op = "link_create"
    /\ ret.val = n_atoms(as)
    /\ ret.val > 2
    /\ Len(as.atoms[ret.val].outgoing) = 2
    /\ as.atoms[ret.val].tv = tv_low

NamedAs(s, name) == {k \in Atoms(s) : s.atoms[k].name = name}

\* C16: lookupByName(name) returns the atom of smallest creation index whose
\* name is exactly name (case-sensitive), also when several atoms have that
\* name; it returns absent when no named atom matches, never returns a link,
\* and does not modify the space.
C16_LookupReturnsFirstMatch ==
    [][ret'.op = "atom_get"
          => \A name \in LookupNames :
                 AtomGet(name)
                     => /\ as' = as
                        /\ IF NamedAs(as, name) = {}
                           THEN ret'.val = NULL
                           ELSE /\ ret'.val \in NamedAs(as, name)
                                /\ \A h \in NamedAs(as, name) : ret'.val <= h
                                /\ as.atoms[ret'.val].type \in StoreNodeTypes
                                /\ as.atoms[ret'.val].outgoing = <<>>]_vars

\* A lookup returned the first of two atoms of the same name, stored after an
\* atom whose name differs in case only and a link.
C16_Witness ==
    /\ ret.op = "atom_get"
    /\ ret.val > 1
    /\ \E k \in Atoms(as) : k > ret.val /\ as.atoms[k].name = ret.name
    /\ \E k \in Atoms(as) : k < ret.val /\ as.atoms[k].name \in StoreNames

\* A lookup of a name no atom has, in a space that holds a link, was absent.
C16_WitnessMiss ==
    /\ ret.op = "atom_get"
    /\ ret.val = NULL
    /\ \E k \in Atoms(as) : as.atoms[k].name = NoName

Matching(s, type) ==
    {k \in Atoms(s) : /\ s.atoms[k].type = type
                      /\ s.atoms[k].tv.confidence >= QueryThreshold}

\* C17: query(pattern) returns exactly the stored atoms whose type is the
\* pattern's type and whose confidence is >= 0.5, in creation order, with
\* their number; the pattern's name and truth value play no part; with no
\* match the number is 0 and the sequence absent; the space is unchanged.
C17_QueryReturnsMatchesInOrder ==
    [][ret'.op = "query"
          => \A pattern \in Patterns :
                 Query(pattern)
                     => /\ as' = as
                        /\ ret'.n_results
                              = Cardinality(Matching(as, pattern.type))
                        /\ IF Matching(as, pattern.type) = {}
                           THEN ret'.val = NULL
                           ELSE /\ Len(ret'.val) = ret'.n_results
                                /\ \A k \in Matching(as, pattern.type) :
                                       \E p \in 1..Len(ret'.val) :
                                           ret'.val[p] = k
                                /\ \A p, q \in 1..Len(ret'.val) :
                                       p < q => ret'.val[p] < ret'.val[q]]_vars

\* A query whose pattern is named and has a truth value returned two atoms,
\* one of another name and one of confidence exactly 0.5, and left out an
\* atom of its type of lower confidence.
C17_Witness ==
    /\ ret.op = "query"
    /\ ret.n_results = 2
    /\ ret.pattern.name = "a"
    /\ as.atoms[ret.val[1]].name = "A"
    /\ \E p \in 1..2 : as.atoms[ret.val[p]].tv.confidence = QueryThreshold
    /\ \E k \in Atoms(as) :
           /\ as.atoms[k].type = ret.pattern.type
           /\ as.atoms[k].tv.confidence < QueryThreshold

\* A query of a type of which the space holds no atom of confidence >= 0.5
\* returned no sequence and the number 0.
C17_WitnessEmpty ==
    /\ ret.op = "query"
    /\ ret.n_results = 0
    /\ ret.val = NULL
    /\ \E k \in Atoms(as) : as.atoms[k].type = ret.pattern.type

C19_OutgoingPointsToEarlierAtoms ==
    \A k \in Atoms(as) :
        \A p \in 1..Len(as.atoms[k].outgoing) :
            /\ as.atoms[k].outgoing[p] \in Atoms(as)
            /\ as.atoms[k].outgoing[p] < k

\* During a chaining call the transitivity rule has appended a link over two
\* atoms stored before it.
C19_Witness ==
    /\ fc.pc # "idle"
    /\ n_atoms(as) > Len(fc.as0)
    /\ as.atoms[n_atoms(as)].type = OPENCOG_ATOM_INHERITANCE_LINK
    /\ Len(as.atoms[n_atoms(as)].outgoing) = 2

\* The entries of the current iteration of the call.
CurrentEntries(f) == {k \in TraceIndex(f) : f.trace[k].iter = f.iter}

\* The pair (i, j) was tested for rule r in the current iteration.
Enumerated(f, r, i, j) ==
    \E k \in CurrentEntries(f) :
        /\ f.trace[k].rule_idx = r
        /\ f.trace[k].i = i
        /\ f.trace[k].j = j

Position(r, i, j) == [rule_idx |-> r, i |-> i, j |-> j]

\* Atom a was stored when the scan of the current iteration came to the
\* position pos: it was there when the iteration began, or a conclusion at an
\* earlier position of the iteration returned it.
StoredBefore(f, a, pos) ==
    \/ a <= f.iter_n0
    \/ \E k \in CurrentEntries(f) :
           f.trace[k].conclusion = a /\ LexLess(f.trace[k], pos)

RuleOf(e) == ure.rules[e.rule_idx + 1]

\* C22: a conclusion whose confidence is below min_confidence is not counted
\* but its effect stays: the link the transitivity rule appended remains in the
\* space and no step of the call other than a conclusion changes the space, so
\* a merge by modus ponens is not undone; with the transitivity rule alone the
\* number of atoms a call appended is >= the count it returns.
C22_UnacceptedEffectPersists ==
    /\ [](fc.inferences_made = Cardinality(AcceptedEntries(fc)))
    /\ [](\A k \in TraceIndex(fc) :
              (fc.trace[k].conclusion # NULL
                  /\ RuleOf(fc.trace[k]) = "inheritance")
                  => /\ fc.trace[k].conclusion > Len(fc.as0)
                     /\ fc.trace[k].conclusion <= n_atoms(as)
                     /\ as.atoms[fc.trace[k].conclusion].type
                           = OPENCOG_ATOM_INHERITANCE_LINK
                     /\ as.atoms[fc.trace[k].conclusion].tv.confidence
                           = fc.trace[k].confidence)
    /\ []((fc.pc = "return" /\ ure.rules = <<"inheritance">>)
              => n_atoms(as) - Len(fc.as0) >= fc.inferences_made)
    /\ [][fc.pc \in {"for_iter", "iter_end", "return"} => as' = as]_vars

\* A call is about to return 0 although the transitivity rule appended a link.
C22_Witness ==
    /\ fc.pc = "return"
    /\ fc.inferences_made = 0
    /\ n_atoms(as) > Len(fc.as0)
    /\ \E k \in TraceIndex(fc) : fc.trace[k].conclusion = n_atoms(as)

\* A call is about to return 0 although modus ponens changed a truth value.
C22_WitnessMerge ==
    /\ fc.pc = "return"
    /\ fc.inferences_made = 0
    /\ n_atoms(as) = Len(fc.as0)
    /\ as.atoms # fc.as0

\* C23: each index pair is tested in one orientation only, atoms[i] then
\* atoms[j] with i < j, so the transitivity rule fires for A -> B and B -> C
\* only when the first premise, the link into the middle atom, was created
\* before the second; with B -> C created before A -> B and the transitivity
\* rule alone, forwardChain returns 0 and no link A -> C is ever stored.
C23_OneOrientationOnly ==
    /\ \A k \in TraceIndex(fc) :
           /\ fc.trace[k].premises[1] < fc.trace[k].premises[2]
           /\ (fc.trace[k].precondition
                  /\ RuleOf(fc.trace[k]) = "inheritance")
                  => (as.atoms[fc.trace[k].premises[1]].outgoing[2]
                         = as.atoms[fc.trace[k].premises[2]].outgoing[1])
    /\ (client.script = "reverse" /\ ure.rules = <<"inheritance">>)
           => /\ \A k \in Atoms(as) : as.atoms[k].outgoing # <<1, 3>>
              /\ n_atoms(as) = client.pos
              /\ fc.inferences_made = 0
              /\ ret.op = "forward_chain" => ret.val = 0

\* With B -> C created before A -> B, a call with the transitivity rule alone
\* has tested the pair of the two links and is about to return 0.
C23_Witness ==
    /\ client.script = "reverse"
    /\ ure.rules = <<"inheritance">>
    /\ fc.pc = "return"
    /\ fc.inferences_made = 0
    /\ \E k \in TraceIndex(fc) : fc.trace[k].premises = <<4, 5>>

\* A call without target on the chain A -> B, B -> C, with the transitivity
\* rule alone, a derived confidence >= min_confidence and room for one link
\* per iteration.
ChainCallWithRoom ==
    /\ client.script = "chain"
    /\ ure.rules = <<"inheritance">>
    /\ ure.min_confidence = 50
    /\ fc.pc # "idle"
    /\ fc.target = NULL
    /\ Len(fc.as0) + ure.max_iterations <= as.capacity

AppendedIn(f, it) ==
    {k \in TraceIndex(f) : f.trace[k].iter = it /\ f.trace[k].conclusion # NULL}

\* C24: the transitivity rule does not look for an existing A -> C link: on
\* the chain A -> B, B -> C, with derived confidence >= min_confidence and
\* capacity not reached, every iteration of forwardChain(none) appends one
\* more link A -> C, the fixpoint stop never fires, and the call runs exactly
\* max_iterations iterations and returns max_iterations.
C24_EveryIterationDerivesAgain ==
    ChainCallWithRoom
        => /\ fc.pc = "iter_end"
                 => /\ fc.made_inference
                    /\ Cardinality(AppendedIn(fc, fc.iter)) = 1
                    /\ n_atoms(as) = Len(fc.as0) + fc.n_iters
           /\ \A k \in (Len(fc.as0) + 1)..n_atoms(as) :
                  /\ as.atoms[k].type = OPENCOG_ATOM_INHERITANCE_LINK
                  /\ as.atoms[k].outgoing = <<1, 3>>
           /\ fc.pc = "return"
                 => /\ fc.n_iters = ure.max_iterations
                    /\ fc.inferences_made = ure.max_iterations
                    /\ n_atoms(as) = Len(fc.as0) + ure.max_iterations

\* A call of two or more iterations is about to return its number of
\* iterations, the space holding as many links A -> C.
C24_Witness ==
    /\ ChainCallWithRoom
    /\ fc.pc = "return"
    /\ ure.max_iterations >= 2
    /\ fc.inferences_made = ure.max_iterations
    /\ n_atoms(as) = Len(fc.as0) + ure.max_iterations
    /\ Cardinality({k \in Atoms(as) : as.atoms[k].outgoing = <<1, 3>>}) >= 2

\* C25: the atoms one iteration appends are bounded by the remaining
\* capacity only, not by the pairs present when it starts: with the links
\* A -> A then A -> B and the transitivity rule, the pair of A -> A with each
\* link A -> B just appended matches in the same pass, and the iteration ends
\* with n_atoms = capacity, every appended atom a link A -> B.
C25_IterationFillsTheSpace ==
    (client.script = "loop" /\ fc.pc = "iter_end"
        /\ \E k \in 1..n_rules(ure) : ure.rules[k] = "inheritance")
        => /\ n_atoms(as) = as.capacity
           /\ \A k \in 5..n_atoms(as) :
                  /\ as.atoms[k].type = OPENCOG_ATOM_INHERITANCE_LINK
                  /\ as.atoms[k].outgoing = <<1, 2>>
           /\ Cardinality(AppendedIn(fc, fc.iter)) = as.capacity - fc.iter_n0
           /\ \A k \in AppendedIn(fc, fc.iter) :
                  /\ fc.trace[k].i = 2
                  /\ fc.trace[k].conclusion = fc.trace[k].j + 2

\* The first iteration of a call ended having appended four links where one
\* pair of links matched when it began.
C25_Witness ==
    /\ client.script = "loop"
    /\ fc.pc = "iter_end"
    /\ fc.iter = 0
    /\ fc.iter_n0 = 4
    /\ n_atoms(as) = as.capacity
    /\ Cardinality(AppendedIn(fc, 0)) = 4

\* The step is the application of modus ponens by the chaining call to the
\* pair at which the call stands.
ModusPonensStep ==
    /\ fc.pc = "conclusion"
    /\ ure.rules[fc.rule_idx + 1] = "modus_ponens"
    /\ Len(fc'.trace) = Len(fc.trace) + 1

\* Q of the pair at which the call stands, and the strength modus ponens
\* derives for it from P and the implication.
QOf(s, f) == s.atoms[f.j + 1].outgoing[2]
DerivedStrength(s, f) ==
    fmul(s.atoms[f.i + 1].tv.strength, s.atoms[f.j + 1].tv.strength)

\* Modus ponens was applied to [P, P => Q] in iteration it of the call.
AppliedIn(f, it) ==
    \E k \in TraceIndex(f) :
        /\ f.trace[k].iter = it
        /\ RuleOf(f.trace[k]) = "modus_ponens"
        /\ f.trace[k].premises = <<1, 3>>
        /\ f.trace[k].conclusion = 2

ImpliesScript == client.script \in {"implies", "implies_small"}

\* Every application by a chaining call leaves Q's strength and count no
\* smaller and Q's confidence no greater, and every iteration that runs to
\* its end has applied modus ponens to [P, P => Q].
MergeIsMonotone ==
    /\ [][ModusPonensStep
             => LET old == as.atoms[QOf(as, fc)].tv
                    new == as'.atoms[QOf(as, fc)].tv
                IN  /\ new.strength >= old.strength
                    /\ new.count >= old.count
                    /\ new.confidence <= old.confidence]_vars
    /\ []((ImpliesScript /\ fc.pc = "iter_end"
              /\ \E k \in 1..n_rules(ure) : ure.rules[k] = "modus_ponens")
             => AppliedIn(fc, fc.iter))

EarlyExit(f) ==
    /\ f.pc = "return"
    /\ f.made_inference
    /\ f.iter < ure.max_iterations

\* The space as it was when the call began.
SpaceAtCall == [as EXCEPT !.atoms = fc.as0]

\* C27: the early exit on target needs a rule that returns an atom stored
\* before the call: with the transitivity rule alone every conclusion is a
\* link just appended, so forwardChain(target) and backwardChain(target), for
\* a target stored before the call, never exit early and end with the count
\* and the space forwardChain(none) ends with from the same state; and
\* forwardChain(none) never exits early under any rules.
C27_NoEarlyExitWithTransitivityOnly ==
    /\ fc.target = NULL => ~EarlyExit(fc)
    /\ ure.rules = <<"inheritance">>
           => /\ ~EarlyExit(fc)
              /\ \A k \in TraceIndex(fc) :
                     fc.trace[k].conclusion # NULL
                         => /\ fc.trace[k].conclusion > Len(fc.as0)
                            /\ fc.trace[k].conclusion # fc.target
              /\ fc.pc = "return"
                     => /\ fc.target \in {NULL} \cup (1..Len(fc.as0))
                        /\ [as |-> as, ret |-> fc.inferences_made]
                              = ggml_opencog_ure_forward_chain(
                                    ure, SpaceAtCall, NULL)

\* A call with a target stored before it, the transitivity rule alone, made
\* accepted inferences and is about to return at the iteration cap.
C27_Witness ==
    /\ ure.rules = <<"inheritance">>
    /\ fc.pc = "return"
    /\ fc.target # NULL
    /\ fc.inferences_made >= 2
    /\ fc.iter = ure.max_iterations

\* Atom k is the second outgoing atom of a stored ImplicationLink.
IsConsequent(s, k) ==
    \E l \in Atoms(s) :
        /\ s.atoms[l].type = OPENCOG_ATOM_IMPLICATION_LINK
        /\ Len(s.atoms[l].outgoing) = 2
        /\ s.atoms[l].outgoing[2] = k

\* The step is an application of modus ponens, called by the client or by
\* the chaining call.
ByModusPonens ==
    \/ fc.pc = "idle" /\ ret'.op = "modus_ponens"
    \/ fc.pc = "conclusion" /\ ure.rules[fc.rule_idx + 1] = "modus_ponens"

\* C28: the atom sequence is append-only: across creations, rule conclusions
\* and chaining calls n_atoms never decreases and an atom stored at index k
\* stays at index k with its type, name and outgoing sequence; the only
\* field of a stored atom that changes is the truth value, and only that of
\* the second outgoing atom of an ImplicationLink, by modus ponens.
C28_AppendOnly ==
    [][as' # as
          => /\ n_atoms(as') >= n_atoms(as)
             /\ \A k \in Atoms(as) :
                    /\ as'.atoms[k].type = as.atoms[k].type
                    /\ as'.atoms[k].name = as.atoms[k].name
                    /\ as'.atoms[k].outgoing = as.atoms[k].outgoing
                    /\ as'.atoms[k].tv # as.atoms[k].tv
                           => (IsConsequent(as, k) /\ ByModusPonens)]_vars

\* During a chaining call modus ponens has changed the truth value of an atom
\* stored before the call, behind which other atoms are stored.
C28_Witness ==
    /\ fc.pc # "idle"
    /\ n_atoms(as) >= 3
    /\ \E k \in 1..(Len(fc.as0) - 1) : as.atoms[k].tv # fc.as0[k].tv

\* The call is about to return what the single-threaded call returns from
\* the state at its start, leaving the space that call leaves.
SingleThreadedResult ==
    [as |-> as, ret |-> fc.inferences_made]
        = ggml_opencog_ure_forward_chain(ure, SpaceAtCall, fc.target)

C21_WitnessLocked ==
    /\ client.lock = "call"
    /\ client.written
    /\ fc.pc = "return"
    /\ fc.inferences_made > 0
    /\ SingleThreadedResult

\* With the lock around each mutation only, the writer changed a truth value
\* during the call and the call is about to return a space that is not the
\* single-threaded one.
C21_WitnessTv ==
    /\ client.lock = "mutation"
    /\ fc.pc = "return"
    /\ client.wrote
    /\ client.watom = NULL
    /\ n_atoms(as) = Len(fc.as0)
    /\ ~SingleThreadedResult

====
